---- MODULE Spec2Model ----
(***************************************************************************)
(* Verification model of the top-fimes movie search front-end:             *)
(*   - the two-tier response cache of scripts/api.js (in-memory Map over   *)
(*     localStorage, 24 h expiry),                                         *)
(*   - the request lifecycle of searchMovies / getMovieDetails (cache      *)
(*     lookup, fetch, timeout, abort, validation, cache write),            *)
(*   - the search / pagination controller of scripts/main.js               *)
(*     (performSearch, handlePageChange) running on the browser event      *)
(*     loop: one macrotask at a time, promise reactions queued as          *)
(*     microtasks and drained before the next macrotask.                   *)
(* Strings that the code trims, lower-cases or concatenates are sequences  *)
(* of tokens; time is in milliseconds.                                     *)
(***************************************************************************)
EXTENDS Integers, Sequences, FiniteSets, TLC

VARIABLES
    now,            \* Date.now()
    ticks,          \* number of clock advances so far (bounded)
    apiKey,         \* config.js OMDB_API_KEY
    lsAvailable,    \* FALSE: every access to window.localStorage throws
    localStorage,   \* name -> stored text, names are token sequences
    memoryCache,    \* api.js memoryCache: key -> payload
    input,          \* elements.searchInput.value
    debounceTimer,  \* deadline of the pending debounced search, 0 when none
    appState,       \* main.js appState
    view,           \* results container, results count, pagination container
    requests,       \* outstanding fetches of searchMovies / getMovieDetails
    nextId,         \* next call / controller identity
    microtasks,     \* queued promise reactions
    lastOp,         \* history: the operation performed by the last step
    prevOp,         \* history: the operation performed by the step before
    latest,         \* history: identity of the most recently started performSearch
    renderedBy,     \* history: the call that last wrote the results container
    storedAt,       \* history: key -> time at which the in-memory entry was stored
    succeeded,      \* history: key -> payload of the last successful call
    typed,          \* history: time of the last input event, handler runs and submits since
    landing,        \* loadPopularMovies: its allMovies and the outcomes so far
    modal,          \* elements.modal (AccessibleModal) and the document around it
    sw              \* service worker: whether installed, and its cache top-fimes-v1

vars == <<now, ticks, apiKey, lsAvailable, localStorage, memoryCache, input,
          debounceTimer, appState, view, requests, nextId, microtasks,
          lastOp, prevOp, latest, renderedBy, storedAt, succeeded, typed,
          landing, modal, sw>>

(***************************************************************************)
(* Bounds of the model.                                                    *)
(***************************************************************************)
MaxTicks == 1
MaxCalls == 4
MaxApiCalls == 2
MaxWaits == 3

(***************************************************************************)
(* Program constants.                                                      *)
(***************************************************************************)
SEARCH_TIMEOUT == 8000
DEBOUNCE_DELAY == 300
CacheTTL == 24 * 60 * 60 * 1000
PLACEHOLDER_KEY == "YOUR_API_KEY_HERE"

StartTime == CacheTTL + 1

(***************************************************************************)
(* Strings.                                                                *)
(***************************************************************************)
toLowerCaseChar(c) ==
    CASE c = "A" -> "a"
      [] c = "B" -> "b"
      [] OTHER -> c

toLowerCase(s) == [i \in 1..Len(s) |-> toLowerCaseChar(s[i])]

RECURSIVE trimStart(_)
trimStart(s) ==
    IF s # <<>> /\ Head(s) = " " THEN trimStart(Tail(s)) ELSE s

RECURSIVE trimEnd(_)
trimEnd(s) ==
    IF s # <<>> /\ s[Len(s)] = " " THEN trimEnd(SubSeq(s, 1, Len(s) - 1)) ELSE s

trim(s) == trimEnd(trimStart(s))

startsWith(name, prefix) == Len(name) > 0 /\ name[1] = prefix

\* variant: five characters are accepted
isValidAPIKey_atLeast5(k) == k # "" /\ Len(k) >= 5 /\ k # PLACEHOLDER_KEY

isValidAPIKey(k) == k # "" /\ Len(k) > 5 /\ k # PLACEHOLDER_KEY

SearchKey(searchTerm, page) ==
    <<"search_">> \o toLowerCase(searchTerm) \o <<"_", ToString(page)>>

DetailKey(imdbID) == <<"detail_">> \o imdbID

StorageName(key) == <<"omdb_">> \o key

(***************************************************************************)
(* Values.                                                                 *)
(***************************************************************************)
Null == [null |-> TRUE]

NaN == -1

SearchPayload(movies, total) ==
    [Response |-> "True", Search |-> movies, totalResults |-> total]

Payloads ==
    { SearchPayload(<<"m1">>, 5),
      SearchPayload(<<"m1", "m2">>, 25),
      SearchPayload(<<>>, 0) }

JSONstringify(value) == [json |-> TRUE, value |-> value]

CorruptText == [json |-> FALSE, value |-> Null]

Put(map, k, v) == (k :> v) @@ map

Remove(map, k) == [x \in DOMAIN map \ {k} |-> map[x]]

EmptyMap == <<>>

(***************************************************************************)
(* Cache tier manager (api.js).                                            *)
(***************************************************************************)
\* localStorage.getItem succeeds, the text parses and the entry is fresh
FreshInStorage(key) ==
    /\ lsAvailable
    /\ StorageName(key) \in DOMAIN localStorage
    /\ localStorage[StorageName(key)].json
    /\ ~ (now - localStorage[StorageName(key)].value.timestamp > CacheTTL)

ExpiredInStorage(key) ==
    /\ lsAvailable
    /\ StorageName(key) \in DOMAIN localStorage
    /\ localStorage[StorageName(key)].json
    /\ now - localStorage[StorageName(key)].value.timestamp > CacheTTL

\* variant: a stored text that does not parse is returned as it is
getFromCache_unparsedReturned(key) ==
    IF key \in DOMAIN memoryCache THEN memoryCache[key]
    ELSE IF FreshInStorage(key) THEN localStorage[StorageName(key)].value.data
    ELSE IF lsAvailable /\ StorageName(key) \in DOMAIN localStorage
            /\ ~ localStorage[StorageName(key)].json
    THEN [text |-> localStorage[StorageName(key)]]
    ELSE Null

\* variant: the lookup consults only the persistent tier
getFromCache_storageOnly(key) ==
    IF FreshInStorage(key) THEN localStorage[StorageName(key)].value.data
    ELSE Null

getFromCache(key) ==
    IF key \in DOMAIN memoryCache THEN memoryCache[key]
    ELSE IF FreshInStorage(key) THEN localStorage[StorageName(key)].value.data
    ELSE Null

\* variant: a fresh persistent entry is returned without being copied
getFromCache_memory_notPromoted(key) == memoryCache

getFromCache_memory(key) ==
    IF key \notin DOMAIN memoryCache /\ FreshInStorage(key)
    THEN Put(memoryCache, key, localStorage[StorageName(key)].value.data)
    ELSE memoryCache

\* variant: an expired entry makes the lookup empty the whole store
getFromCache_storage_emptied(key) ==
    IF key \notin DOMAIN memoryCache /\ ExpiredInStorage(key)
    THEN EmptyMap
    ELSE localStorage

getFromCache_storage(key) ==
    IF key \notin DOMAIN memoryCache /\ ExpiredInStorage(key)
    THEN Remove(localStorage, StorageName(key))
    ELSE localStorage

\* variant: the Map write sits inside the try block, after setItem
setCache_memory_insideTry(key, data, writeOk) ==
    IF lsAvailable /\ writeOk THEN Put(memoryCache, key, data) ELSE memoryCache

\* variant: a failed write empties the Map
setCache_memory_droppedOnFailure(key, data, writeOk) ==
    IF lsAvailable /\ writeOk THEN Put(memoryCache, key, data) ELSE EmptyMap

setCache_memory(key, data, writeOk) == Put(memoryCache, key, data)

setCache_storage(key, data, writeOk) ==
    IF lsAvailable /\ writeOk
    THEN Put(localStorage, StorageName(key),
             JSONstringify([data |-> data, timestamp |-> now]))
    ELSE localStorage

\* variant: only the persistent tier is emptied
clearCache_memory_kept == memoryCache

clearCache_memory == EmptyMap

\* variant: the whole store is emptied (localStorage.clear())
clearCache_storage_all ==
    IF lsAvailable THEN EmptyMap ELSE localStorage

clearCache_storage ==
    IF lsAvailable
    THEN [n \in {x \in DOMAIN localStorage : ~ startsWith(x, "omdb_")}
            |-> localStorage[n]]
    ELSE localStorage

(***************************************************************************)
(* Errors and response validation (api.js, utils.js).  Messages are        *)
(* written without diacritics.                                             *)
(***************************************************************************)
Err(name, message) == [name |-> name, message |-> message]

ConfigError == Err("Error", <<"API key nao configurada. Configure em scripts/config.js">>)
SearchValidationError == Err("Error", <<"Por favor, insira um termo de busca.">>)
DetailValidationError == Err("Error", <<"ID IMDb invalido.">>)
AbortError == Err("AbortError", <<"The operation was aborted.">>)
NetworkError == Err("TypeError", <<"Failed to fetch">>)
HttpError(status) == Err("Error", <<"HTTP ", ToString(status)>>)
SyntaxError == Err("SyntaxError", <<"Unexpected token">>)
SearchCancelled == Err("Error", <<"Busca cancelada.">>)
DetailCancelled == Err("Error", <<"Requisicao cancelada.">>)

Fulfilled(data) == [state |-> "fulfilled", data |-> data]
Rejected(error) == [state |-> "rejected", error |-> error]
Pending == [state |-> "pending"]

\* variant: the shape of the response is tested before its failure flag
validateAPIResponse_shapeFirst(data, type) ==
    IF type = "search" /\ "Search" \notin DOMAIN data
    THEN Err("Error", <<"Nenhum resultado encontrado.">>)
    ELSE IF type = "detail" /\ "imdbID" \notin DOMAIN data
    THEN Err("Error", <<"Filme nao encontrado.">>)
    ELSE IF data.Response = "False"
    THEN Err("Error", IF "Error" \in DOMAIN data /\ data.Error # <<>>
                      THEN data.Error ELSE <<"Erro na API OMDb">>)
    ELSE Null

\* the outcome of validateAPIResponse: a thrown error, or Null when it returns true
validateAPIResponse(data, type) ==
    IF data.Response = "False"
    THEN Err("Error", IF "Error" \in DOMAIN data /\ data.Error # <<>>
                      THEN data.Error ELSE <<"Erro na API OMDb">>)
    ELSE IF type = "search" /\ "Search" \notin DOMAIN data
    THEN Err("Error", <<"Nenhum resultado encontrado.">>)
    ELSE IF type = "detail" /\ "imdbID" \notin DOMAIN data
    THEN Err("Error", <<"Filme nao encontrado.">>)
    ELSE Null

\* variant: the catch block passes every error on as it is
rethrow_asIs(type, error) == error

\* the catch block of searchMovies / getMovieDetails
rethrow(type, error) ==
    IF error.name = "AbortError"
    THEN (IF type = "search" THEN SearchCancelled ELSE DetailCancelled)
    ELSE error

getErrorMessage(error) ==
    IF error.name = "AbortError" THEN <<"Busca cancelada pelo usuario.">>
    ELSE IF error.message = <<"Failed to fetch">>
    THEN <<"Erro de conexao. Verifique sua internet e tente novamente.">>
    ELSE IF error.message # <<>> THEN error.message
    ELSE <<"Erro desconhecido. Tente novamente.">>

parseIntOr0(totalResults) == IF totalResults = NaN THEN 0 ELSE totalResults

(***************************************************************************)
(* searchMovies / getMovieDetails up to their first await (api.js).        *)
(***************************************************************************)
cacheKey(type, arg, page) ==
    IF type = "search" THEN SearchKey(arg, page) ELSE DetailKey(arg)

\* both precondition checks passed: the cache is consulted
ReachesCache(type, arg) ==
    /\ isValidAPIKey(apiKey)
    /\ arg # <<>>
    /\ Len(trim(arg)) # 0

\* how the call stands when it first yields: settled, or waiting for fetch
\* variant: only the empty argument is refused, the trimmed length is not looked at
entry_untrimmedCheck(type, arg, page) ==
    IF ~ isValidAPIKey(apiKey) THEN Rejected(ConfigError)
    ELSE IF arg = <<>>
    THEN Rejected(IF type = "search" THEN SearchValidationError
                  ELSE DetailValidationError)
    ELSE IF getFromCache(cacheKey(type, arg, page)) # Null
    THEN Fulfilled(getFromCache(cacheKey(type, arg, page)))
    ELSE Pending

entry(type, arg, page) ==
    IF ~ isValidAPIKey(apiKey) THEN Rejected(ConfigError)
    ELSE IF arg = <<>> \/ Len(trim(arg)) = 0
    THEN Rejected(IF type = "search" THEN SearchValidationError
                  ELSE DetailValidationError)
    ELSE IF getFromCache(cacheKey(type, arg, page)) # Null
    THEN Fulfilled(getFromCache(cacheKey(type, arg, page)))
    ELSE Pending

\* the fetch issued on a cache miss; own: the call created its AbortController
NewRequest(id, caller, type, arg, page, own, pageArg) ==
    [id |-> id, caller |-> caller, type |-> type, arg |-> arg,
     key |-> cacheKey(type, arg, page),
     query |-> IF type = "search" THEN trim(arg) ELSE arg,
     page |-> page, own |-> own, stage |-> "fetch", fetched |-> TRUE,
     issuedAt |-> now, timer |-> TRUE, pageArg |-> pageArg, aborted |-> FALSE,
     body |-> Null, written |-> FALSE,
     purged |-> getFromCache_storage(cacheKey(type, arg, page)) # localStorage]

(***************************************************************************)
(* Initial state: the modules have been evaluated, window.localStorage     *)
(* holds whatever earlier sessions and other scripts of the origin left.   *)
(***************************************************************************)
ApiKeys == {PLACEHOLDER_KEY, "", "abcde", "k1234567"}

InputValues == { <<>>, <<"a">>, <<" ", "B">> }

CacheKeys == { SearchKey(<<"a">>, 1), DetailKey(<<"tt1">>) }

\* entries of other scripts of the origin; the second name contains the
\* prefix of this application without starting with it
ForeignStorage ==
    (<<"theme">> :> [json |-> FALSE, value |-> Null])
    @@ (<<"my_", "omdb_", "x">> :> [json |-> FALSE, value |-> Null])

OldEntry(data, timestamp) ==
    JSONstringify([data |-> data, timestamp |-> timestamp])

\* entries left by an earlier session: aged more than, exactly, and less than 24 h
InitialStorages ==
    { ForeignStorage }
    \cup { Put(ForeignStorage, StorageName(SearchKey(<<"a">>, 1)), e) :
             e \in { OldEntry(SearchPayload(<<"m1">>, 5), 0),
                     OldEntry(SearchPayload(<<"m1">>, 5), 1),
                     OldEntry(SearchPayload(<<"m1">>, 5), StartTime),
                     CorruptText } }

NoOp == [op |-> "init"]

\* what the history keeps of the operation before the last one
Brief(o) == IF o.op \in {"set", "clear", "appDebug.clearCache"} THEN o ELSE NoOp

Init ==
    /\ now = StartTime
    /\ ticks = 0
    /\ apiKey \in ApiKeys
    /\ lsAvailable \in BOOLEAN
    /\ localStorage \in (IF lsAvailable THEN InitialStorages ELSE {EmptyMap})
    /\ memoryCache = EmptyMap
    /\ input = <<>>
    /\ debounceTimer = 0
    /\ appState = [currentSearchTerm |-> <<>>, currentPage |-> 1,
                   totalResults |-> 0, currentMovies |-> <<>>,
                   movieDetailsCache |-> EmptyMap,
                   abortController |-> 0]
    /\ view = [results |-> [kind |-> "initial", movies |-> <<>>, message |-> <<>>],
               count |-> <<>>,
               pagination |-> [page |-> 0, prev |-> FALSE, next |-> FALSE]]
    /\ requests = {}
    /\ nextId = 1
    /\ microtasks = <<>>
    /\ lastOp = NoOp
    /\ prevOp = NoOp
    /\ latest = 0
    /\ renderedBy = 0
    /\ storedAt = EmptyMap
    /\ succeeded = EmptyMap
    /\ typed = [at |-> 0, runs |-> 0, searches |-> 0, submitted |-> FALSE]
    /\ landing = [state |-> "idle", outcomes |-> <<>>, allMovies |-> <<>>]
    /\ modal = [open |-> FALSE, trap |-> FALSE, escape |-> FALSE,
                backdrop |-> FALSE, overflow |-> "",
                previouslyFocusedElement |-> Null, focus |-> [element |-> "body"],
                content |-> [kind |-> "empty"], requested |-> <<>>, seq |-> 0]
    /\ sw = [installed |-> FALSE, cache |-> EmptyMap]

appVars == <<input, debounceTimer, appState, view, latest, renderedBy, typed,
             landing, modal>>
netVars == <<requests, nextId, microtasks>>
cacheVars == <<localStorage, memoryCache, storedAt>>
envVars == <<apiKey, lsAvailable, sw>>

(***************************************************************************)
(* Time.  Timers never run early: a callback that is due runs before any   *)
(* timer with a later deadline and before the clock is read again.         *)
(***************************************************************************)
Deadlines ==
    {r.issuedAt + SEARCH_TIMEOUT : r \in {q \in requests : q.timer}}
    \cup (IF debounceTimer # 0 THEN {debounceTimer} ELSE {})

Earliest(S) == CHOOSE x \in S : \A y \in S : x <= y

\* the timer with deadline dl is the next one to run
Due(dl) == dl <= now /\ dl = Earliest(Deadlines)

Elapse(d, limit) ==
    /\ ticks < limit
    /\ microtasks = <<>>
    /\ \A dl \in Deadlines : dl > now
    /\ now' = now + d
    /\ ticks' = ticks + 1
    /\ lastOp' = [op |-> "tick"]
    /\ prevOp' = Brief(lastOp)
    /\ UNCHANGED <<appVars, netVars, cacheVars, envVars, succeeded>>

Tick(d) == Elapse(d, MaxTicks)

(***************************************************************************)
(* The cache functions called directly.                                    *)
(***************************************************************************)
\* age of the entry a lookup of key would find, -1 when there is none
EntryAge(key) ==
    IF key \in DOMAIN memoryCache THEN now - storedAt[key]
    ELSE IF /\ lsAvailable
            /\ StorageName(key) \in DOMAIN localStorage
            /\ localStorage[StorageName(key)].json
         THEN now - localStorage[StorageName(key)].value.timestamp
         ELSE -1

storedAt_afterGet(key) ==
    IF key \notin DOMAIN memoryCache /\ FreshInStorage(key)
    THEN Put(storedAt, key, localStorage[StorageName(key)].value.timestamp)
    ELSE storedAt

CallGetFromCache(key) ==
    /\ memoryCache' = getFromCache_memory(key)
    /\ localStorage' = getFromCache_storage(key)
    /\ storedAt' = storedAt_afterGet(key)
    /\ lastOp' = [op |-> "get", key |-> key, result |-> getFromCache(key),
                  age |-> EntryAge(key),
                  tier |-> IF key \in DOMAIN memoryCache THEN "memory" ELSE "storage"]
    /\ prevOp' = Brief(lastOp)
    /\ UNCHANGED <<now, ticks, appVars, netVars, envVars, succeeded>>

CallSetCache(key, data, writeOk) ==
    /\ memoryCache' = setCache_memory(key, data, writeOk)
    /\ localStorage' = setCache_storage(key, data, writeOk)
    /\ storedAt' = Put(storedAt, key, now)
    /\ lastOp' = [op |-> "set", key |-> key, data |-> data,
                  written |-> lsAvailable /\ writeOk]
    /\ prevOp' = Brief(lastOp)
    /\ UNCHANGED <<now, ticks, appVars, netVars, envVars, succeeded>>

CallClearCache ==
    /\ microtasks = <<>>
    /\ memoryCache' = clearCache_memory
    /\ localStorage' = clearCache_storage
    /\ storedAt' = EmptyMap
    /\ succeeded' = EmptyMap
    /\ lastOp' = [op |-> "clear",
                  hadMemory |-> DOMAIN memoryCache,
                  hadStorage |-> {k \in CacheKeys :
                                    StorageName(k) \in DOMAIN localStorage}]
    /\ prevOp' = Brief(lastOp)
    /\ UNCHANGED <<now, ticks, appVars, netVars, envVars>>

CachePayloads == { SearchPayload(<<"m1">>, 5), SearchPayload(<<"m1", "m2">>, 25) }

CacheInit == Init /\ isValidAPIKey(apiKey)

CacheNext ==
    \/ \E d \in {1, CacheTTL} : Tick(d)
    \/ \E k \in CacheKeys : CallGetFromCache(k)
    \/ \E k \in CacheKeys, v \in CachePayloads, ok \in BOOLEAN : CallSetCache(k, v, ok)
    \/ CallClearCache

CacheSpec == CacheInit /\ [][CacheNext]_vars

(***************************************************************************)
(* Properties of the cache tier manager, checked under CacheSpec.          *)
(***************************************************************************)

\* C7: a lookup of an entry stored more than 24 hours ago returns null,
\* whichever tier holds the entry, and leaves no persistent entry omdb_<key>.
ExpiredLookupReturnsNull ==
    (lastOp.op = "get" /\ lastOp.age > CacheTTL)
        => /\ lastOp.result = Null
           /\ StorageName(lastOp.key) \notin DOMAIN localStorage

\* C21: on an in-memory miss with a readable persistent entry, getFromCache
\* returns the entry's data and copies it into the in-memory map, leaving
\* localStorage alone, exactly when now - timestamp <= 24 h; otherwise it
\* returns null, removes that persistent entry and leaves the map unchanged.
MissPromotesFreshEntry ==
    [][(/\ lastOp'.op = "get"
        /\ lastOp'.key \notin DOMAIN memoryCache
        /\ lsAvailable
        /\ StorageName(lastOp'.key) \in DOMAIN localStorage
        /\ localStorage[StorageName(lastOp'.key)].json)
          => LET name == StorageName(lastOp'.key)
                 stored == localStorage[name].value
             IN
             IF now - stored.timestamp <= 24 * 60 * 60 * 1000
             THEN /\ lastOp'.result = stored.data
                  /\ memoryCache' = Put(memoryCache, lastOp'.key, stored.data)
                  /\ localStorage' = localStorage
             ELSE /\ lastOp'.result = Null
                  /\ memoryCache' = memoryCache
                  /\ localStorage' = Remove(localStorage, name)]_vars

EntryAgedExactlyOneDayPromoted ==
    /\ lastOp.op = "get" /\ lastOp.tier = "storage"
    /\ lastOp.age = CacheTTL
    /\ lastOp.result # Null
    /\ lastOp.key \in DOMAIN memoryCache
    /\ StorageName(lastOp.key) \in DOMAIN localStorage

\* C9: getFromCache(k) called immediately after setCache(k, v) returns v,
\* whether or not the localStorage write succeeded.
SetThenGetReturnsValue ==
    (lastOp.op = "get" /\ prevOp.op = "set" /\ prevOp.key = lastOp.key)
        => lastOp.result = prevOp.data

SetThenGetAfterFailedWrite ==
    /\ lastOp.op = "get" /\ prevOp.op = "set" /\ prevOp.key = lastOp.key
    /\ ~ prevOp.written
    /\ lastOp.result = prevOp.data

\* C10: after clearCache() no tier holds an entry for any cache key and
\* getFromCache returns null for each of them.
ClearEmptiesBothTiers ==
    /\ lastOp.op = "clear" =>
          \A k \in CacheKeys :
              /\ getFromCache(k) = Null
              /\ k \notin DOMAIN memoryCache
              /\ StorageName(k) \notin DOMAIN localStorage
    /\ (lastOp.op = "get" /\ prevOp.op = "clear") => lastOp.result = Null

ClearedAfterPromotion ==
    /\ lastOp.op = "clear"
    /\ lastOp.hadMemory \cap lastOp.hadStorage # {}
    /\ \A k \in CacheKeys : getFromCache(k) = Null

\* C11: clearCache() removes only localStorage entries whose name starts
\* with 'omdb_': it adds none, and every other entry has the same value after
\* the call as before it.
ClearKeepsForeignEntries ==
    [][lastOp'.op = "clear" =>
          /\ DOMAIN localStorage' \subseteq DOMAIN localStorage
          /\ \A n \in DOMAIN localStorage :
                IF n[1] = "omdb_"
                THEN lsAvailable => n \notin DOMAIN localStorage'
                ELSE /\ n \in DOMAIN localStorage'
                     /\ localStorage'[n] = localStorage[n]]_vars

ClearedBesideForeignEntries ==
    /\ lastOp.op = "clear"
    /\ lastOp.hadStorage # {}
    /\ DOMAIN localStorage = DOMAIN ForeignStorage

(***************************************************************************)
(* Rendering (ui.js): what each container shows.                           *)
(***************************************************************************)
renderLoadingState == [kind |-> "loading", movies |-> <<>>, message |-> <<>>]

renderErrorState(errorMessage) ==
    [kind |-> "error", movies |-> <<>>, message |-> errorMessage]

renderMovieGrid(movies) ==
    IF Len(movies) = 0
    THEN [kind |-> "empty", movies |-> <<>>, message |-> <<>>]
    ELSE [kind |-> "grid", movies |-> movies, message |-> <<>>]

updateResultsCount(count, searchTerm) ==
    <<ToString(count), " resultado(s) encontrado(s) para ">> \o searchTerm

renderPagination(currentPage, hasNextPage) ==
    [page |-> currentPage, prev |-> currentPage > 1, next |-> hasNextPage]

hasNextPage(currentPage, totalResults) == (currentPage * 10) < totalResults

(***************************************************************************)
(* performSearch after its await (main.js lines 173-195).                  *)
(***************************************************************************)
HasItems(out) ==
    /\ out.state = "fulfilled"
    /\ "Search" \in DOMAIN out.data
    /\ Len(out.data.Search) # 0

performSearch_state(st, out) ==
    IF HasItems(out)
    THEN [st EXCEPT !.currentMovies = out.data.Search,
                    !.totalResults = parseIntOr0(out.data.totalResults),
                    !.abortController = 0]
    ELSE [st EXCEPT !.abortController = 0]

performSearch_view(v, st, searchTerm, out) ==
    IF HasItems(out)
    THEN [results |-> renderMovieGrid(out.data.Search),
          count |-> updateResultsCount(Len(out.data.Search), searchTerm),
          pagination |->
              renderPagination(st.currentPage,
                  hasNextPage(st.currentPage, parseIntOr0(out.data.totalResults)))]
    ELSE IF out.state = "fulfilled"
    THEN [v EXCEPT !.results = renderErrorState(<<"Nenhum resultado para ">> \o searchTerm),
                   !.count = <<"0 resultados encontrados">>]
    ELSE IF out.error.name # "AbortError"
    THEN [v EXCEPT !.results = renderErrorState(getErrorMessage(out.error)),
                   !.count = <<"Erro na busca">>]
    ELSE v

CallArgs(c) == <<c.type, c.arg, c.page>>

\* history: a successful call is remembered with the time its entry was stored
Succeeded(c, out) ==
    IF out.state = "fulfilled" /\ (c.fetched \/ CallArgs(c) \notin DOMAIN succeeded)
    THEN Put(succeeded, CallArgs(c),
             [data |-> out.data,
              at |-> IF c.fetched \/ cacheKey(c.type, c.arg, c.page) \notin DOMAIN storedAt
                     THEN now ELSE storedAt[cacheKey(c.type, c.arg, c.page)]])
    ELSE succeeded

(***************************************************************************)
(* loadPopularMovies (main.js lines 116-144): the reactions of one term    *)
(* search, and what follows Promise.all.                                   *)
(***************************************************************************)
\* the first two entries of config.js POPULAR_MOVIES_TERMS
PopularTerms == << <<"A", "vengers">>, <<"B", "atman">> >>

\* Array.prototype.slice(0, n)
slice(a, n) == SubSeq(a, 1, IF Len(a) < n THEN Len(a) ELSE n)

\* .then pushes up to three movies of the result, .catch only warns
loadPopularMovies_then(l, out) ==
    [l EXCEPT !.outcomes = Append(@, out),
              !.allMovies =
                  IF out.state = "fulfilled" /\ "Search" \in DOMAIN out.data
                  THEN @ \o slice(out.data.Search, 3) ELSE @]

loadPopularMovies_settled(l) == Len(l.outcomes) = Len(PopularTerms)

\* variant: the first rejected term search fails the whole batch
loadPopularMovies_view_failFast(v, l) ==
    IF \E i \in 1..Len(l.outcomes) : l.outcomes[i].state = "rejected"
    THEN [v EXCEPT !.results = renderErrorState(
                       <<"Nao foi possivel carregar filmes populares.">>)]
    ELSE IF Len(l.allMovies) > 0
    THEN [v EXCEPT !.results = renderMovieGrid(l.allMovies),
                   !.count = <<ToString(Len(l.allMovies)), " filmes populares">>]
    ELSE [v EXCEPT !.results = renderErrorState(
                       <<"Nao foi possivel carregar filmes populares.">>)]

loadPopularMovies_view(v, l) ==
    IF Len(l.allMovies) > 0
    THEN [v EXCEPT !.results = renderMovieGrid(l.allMovies),
                   !.count = <<ToString(Len(l.allMovies)), " filmes populares">>]
    ELSE [v EXCEPT !.results = renderErrorState(
                       <<"Nao foi possivel carregar filmes populares.">>)]

loadPopularMovies_state(st, l) ==
    IF Len(l.allMovies) > 0 THEN [st EXCEPT !.currentMovies = l.allMovies] ELSE st

\* the batch after the outcomes outs, in the order in which they arrived
RECURSIVE Collect(_, _)
Collect(l, outs) ==
    IF outs = <<>> THEN l
    ELSE Collect(loadPopularMovies_then(l, Head(outs)), Tail(outs))

\* the caller's reactions to the outcomes outs, all of one call c
Landed(c, outs) ==
    LET l == Collect(landing, outs) IN
    IF loadPopularMovies_settled(l)
    THEN /\ landing' = [l EXCEPT !.state = "done"]
         /\ appState' = loadPopularMovies_state(appState, l)
         /\ view' = loadPopularMovies_view(view, l)
         /\ renderedBy' = c.id
    ELSE /\ landing' = l
         /\ UNCHANGED <<appState, view, renderedBy>>

(***************************************************************************)
(* AccessibleModal (modal.js) and openMovieDetails (main.js lines          *)
(* 213-258).  trap and escape tell whether the bound keydown listeners are *)
(* registered on the modal and on the document; backdrop, whether a click  *)
(* listener of open() is registered (none is ever removed).                *)
(***************************************************************************)
setContent(m, html) == [m EXCEPT !.content = html]

open(m, triggerElement) ==
    [m EXCEPT !.previouslyFocusedElement =
                   IF triggerElement # Null THEN triggerElement ELSE m.focus,
              !.open = TRUE, !.trap = TRUE, !.escape = TRUE, !.backdrop = TRUE,
              !.focus = IF m.content.kind \in {"details", "error"}
                        THEN [element |-> "dialog"] ELSE @,
              !.overflow = "hidden"]

\* variant: close() leaves the Escape listener on the document
close_escapeKept(m) ==
    [m EXCEPT !.open = FALSE, !.trap = FALSE, !.overflow = "",
              !.focus = IF m.previouslyFocusedElement # Null
                        THEN m.previouslyFocusedElement ELSE @]

close(m) ==
    [m EXCEPT !.open = FALSE, !.trap = FALSE, !.escape = FALSE,
              !.overflow = "",
              !.focus = IF m.previouslyFocusedElement # Null
                        THEN m.previouslyFocusedElement ELSE @]

handleEscape(m, key) == IF key = "Escape" /\ m.open THEN close(m) ELSE m

renderMovieDetails(movie) == [kind |-> "details", imdbID |-> movie.imdbID]

\* openMovieDetails after its await: the details, or the catch block
openMovieDetails_then(m, out) ==
    IF out.state = "fulfilled"
    THEN setContent(m, renderMovieDetails(out.data))
    ELSE setContent(m, [kind |-> "error", message |-> getErrorMessage(out.error)])

openMovieDetails_state(st, imdbId, out) ==
    IF out.state = "fulfilled"
    THEN [st EXCEPT !.movieDetailsCache = Put(@, imdbId, out.data)]
    ELSE st

\* the awaiting caller receives the outcome of call c
Settle(c, out) ==
    /\ IF c.caller = "performSearch"
       THEN /\ appState' = performSearch_state(appState, out)
            /\ view' = performSearch_view(view, appState, c.arg, out)
            /\ renderedBy' = IF performSearch_view(view, appState, c.arg, out) # view
                             THEN c.id ELSE renderedBy
            /\ UNCHANGED <<landing, modal>>
       ELSE IF c.caller = "loadPopularMovies"
       THEN Landed(c, <<out>>) /\ UNCHANGED modal
       ELSE IF c.caller = "openMovieDetails"
       THEN /\ appState' = openMovieDetails_state(appState, c.arg, out)
            /\ modal' = openMovieDetails_then(modal, out)
            /\ UNCHANGED <<view, renderedBy, landing>>
       ELSE UNCHANGED <<appState, view, renderedBy, landing, modal>>
    /\ succeeded' = Succeeded(c, out)
    /\ lastOp' = [op |-> "settle", id |-> c.id, caller |-> c.caller,
                  type |-> c.type, arg |-> c.arg, page |-> c.page,
                  out |-> out, fetched |-> c.fetched, aborted |-> c.aborted,
                  body |-> c.body, written |-> c.written, purged |-> c.purged,
                  superseded |-> c.caller = "performSearch" /\ c.id < latest]
    /\ prevOp' = Brief(lastOp)
    /\ UNCHANGED <<input, debounceTimer, latest, typed>>

Job(kind, c, out) ==
    [kind |-> kind, id |-> c.id, caller |-> c.caller, type |-> c.type,
     arg |-> c.arg, page |-> c.page, fetched |-> c.fetched,
     aborted |-> c.aborted, body |-> c.body, written |-> c.written,
     purged |-> c.purged, out |-> out]

(***************************************************************************)
(* performSearch up to its await (main.js lines 149-171).  st is appState  *)
(* as the caller left it.                                                  *)
(***************************************************************************)
performSearch(st, pageArg, origin) ==
    LET searchTerm == trim(input)
        id == nextId
        old == st.abortController
        cut == {r \in requests : old # 0 /\ r.id = old}
        e == entry("search", searchTerm, 1)
        key == cacheKey("search", searchTerm, 1)
        c == [id |-> id, caller |-> "performSearch", type |-> "search",
              arg |-> searchTerm, page |-> 1, fetched |-> FALSE,
              aborted |-> FALSE, body |-> Null, written |-> FALSE,
              purged |-> FALSE]
    IN
    IF searchTerm = <<>>
    THEN /\ appState' = st
         /\ view' = [view EXCEPT !.count = <<"Digite um termo para buscar.">>]
         /\ lastOp' = [op |-> "start", id |-> 0, origin |-> origin,
                       pageArg |-> pageArg, issued |-> FALSE,
                       total |-> st.totalResults, shown |-> view.results.kind]
         /\ prevOp' = Brief(lastOp)
         /\ UNCHANGED <<netVars, cacheVars, latest, renderedBy, succeeded>>
    ELSE /\ nextId <= MaxCalls
         /\ appState' = [st EXCEPT !.abortController = id,
                                   !.currentSearchTerm = searchTerm,
                                   !.currentPage = 1]
         /\ view' = [view EXCEPT !.results = renderLoadingState,
                                 !.count = <<"Carregando resultados...">>]
         /\ renderedBy' = id
         /\ latest' = id
         /\ nextId' = id + 1
         /\ memoryCache' = getFromCache_memory(key)
         /\ localStorage' = getFromCache_storage(key)
         /\ storedAt' = storedAt_afterGet(key)
         /\ requests' = (requests \ cut) \cup
               (IF e.state = "pending"
                THEN {NewRequest(id, "performSearch", "search", searchTerm, 1,
                                 FALSE, pageArg)}
                ELSE {})
         /\ microtasks' =
               microtasks
               \o [i \in 1..Cardinality(cut) |->
                     Job("catch", [(CHOOSE r \in cut : TRUE) EXCEPT !.aborted = TRUE],
                         Rejected(AbortError))]
               \o (IF e.state = "pending" THEN <<>> ELSE <<Job("resume", c, e)>>)
         /\ lastOp' = [op |-> "start", id |-> id, origin |-> origin,
                       pageArg |-> pageArg, issued |-> e.state = "pending",
                       page |-> 1, arg |-> searchTerm,
                       term |-> st.currentSearchTerm,
                       total |-> st.totalResults, shown |-> view.results.kind]
         /\ prevOp' = Brief(lastOp)
         /\ UNCHANGED succeeded

\* variant: a pending timer is left to run, a new one is set only when none is
debounce_pendingKept(timeoutId, t) ==
    IF timeoutId # 0 THEN timeoutId ELSE t + DEBOUNCE_DELAY

\* the deadline after debounced() ran at time t: clearTimeout, then setTimeout
debounce(timeoutId, t) == t + DEBOUNCE_DELAY

(***************************************************************************)
(* Event handlers of main.js; they exist only when init() found a valid    *)
(* API key.                                                                *)
(***************************************************************************)
Idle == microtasks = <<>> /\ isValidAPIKey(apiKey)

\* 'input' event on the search field: the debounced handler is re-armed
InputEvent(v) ==
    /\ Idle
    /\ v # input
    /\ input' = v
    /\ debounceTimer' = debounce(debounceTimer, now)
    /\ typed' = [at |-> now, runs |-> 0, searches |-> 0, submitted |-> FALSE]
    /\ lastOp' = [op |-> "input"]
    /\ prevOp' = Brief(lastOp)
    /\ UNCHANGED <<now, ticks, envVars, cacheVars, netVars, appState, view, landing, modal,
                   latest, renderedBy, succeeded>>

\* the debounce timer expires
DebounceFires ==
    /\ Idle
    /\ debounceTimer # 0 /\ Due(debounceTimer)
    /\ debounceTimer' = 0
    /\ typed' = [typed EXCEPT !.runs = @ + 1,
                              !.searches = IF trim(input) # <<>> THEN @ + 1 ELSE @]
    /\ IF trim(input) # <<>>
       THEN performSearch(appState, 0, "debounce")
       ELSE /\ lastOp' = [op |-> "debounce"]
            /\ prevOp' = Brief(lastOp)
            /\ UNCHANGED <<appState, view, netVars, cacheVars, latest,
                           renderedBy, succeeded>>
    /\ UNCHANGED <<now, ticks, envVars, input, landing, modal>>

\* 'submit' event of the search form (history: whether it comes within the
\* debounce delay of the last input event)
Submit ==
    /\ Idle
    /\ performSearch(appState, 0, "submit")
    /\ typed' = [typed EXCEPT !.submitted = @ \/ now - typed.at < DEBOUNCE_DELAY]
    /\ UNCHANGED <<now, ticks, envVars, input, debounceTimer, landing, modal>>

handlePageChange(page) ==
    /\ performSearch([appState EXCEPT !.currentPage = page], page, "page")
    /\ UNCHANGED <<now, ticks, envVars, input, debounceTimer, typed, landing, modal>>

\* click on the pagination buttons rendered by renderPagination
ClickNext ==
    /\ Idle
    /\ view.pagination.next
    /\ handlePageChange(view.pagination.page + 1)

ClickPrev ==
    /\ Idle
    /\ view.pagination.prev
    /\ handlePageChange(view.pagination.page - 1)

(***************************************************************************)
(* The event loop: promise reactions, network events, timers.              *)
(***************************************************************************)
RunMicrotask ==
    /\ microtasks # <<>>
    /\ LET job == Head(microtasks) IN
       IF job.kind = "catch"
       THEN /\ microtasks' = Tail(microtasks)
                  \o <<Job("resume", job, Rejected(rethrow(job.type, job.out.error)))>>
            /\ lastOp' = [op |-> "microtask"]
            /\ prevOp' = Brief(lastOp)
            /\ UNCHANGED <<appVars, succeeded>>
       ELSE /\ microtasks' = Tail(microtasks)
            /\ Settle(job, job.out)
    /\ UNCHANGED <<now, ticks, envVars, cacheVars, requests, nextId>>

\* the request of r ends and its call, remembered as c, settles with out
Deliver(r, c, out) ==
    /\ microtasks = <<>>
    /\ requests' = requests \ {r}
    /\ Settle(c, out)
    /\ UNCHANGED <<now, ticks, envVars, nextId, microtasks>>

Finish(r, out) == Deliver(r, r, out)

FetchFails(r) ==
    /\ r.stage = "fetch"
    /\ Finish(r, Rejected(rethrow(r.type, NetworkError)))
    /\ UNCHANGED cacheVars

HttpErrorResponse(r) ==
    /\ r.stage = "fetch"
    /\ Finish(r, Rejected(rethrow(r.type, HttpError(500))))
    /\ UNCHANGED cacheVars

\* response.ok: the timeout is cleared, the body is awaited
HeadersArrive(r) ==
    /\ microtasks = <<>>
    /\ r.stage = "fetch"
    /\ requests' = (requests \ {r}) \cup {[r EXCEPT !.stage = "json", !.timer = FALSE]}
    /\ lastOp' = [op |-> "headers", id |-> r.id]
    /\ prevOp' = Brief(lastOp)
    /\ UNCHANGED <<now, ticks, envVars, cacheVars, appVars, nextId,
                   microtasks, succeeded>>

BodyFails(r) ==
    /\ r.stage = "json"
    /\ Finish(r, Rejected(rethrow(r.type, SyntaxError)))
    /\ UNCHANGED cacheVars

BodyArrives(r, data, writeOk) ==
    /\ r.stage = "json"
    /\ IF validateAPIResponse(data, r.type) # Null
       THEN /\ Deliver(r, [r EXCEPT !.body = data],
                       Rejected(rethrow(r.type, validateAPIResponse(data, r.type))))
            /\ UNCHANGED cacheVars
       ELSE /\ Deliver(r, [r EXCEPT !.body = data,
                                     !.written = lsAvailable /\ writeOk],
                       Fulfilled(data))
            /\ memoryCache' = setCache_memory(r.key, data, writeOk)
            /\ localStorage' = setCache_storage(r.key, data, writeOk)
            /\ storedAt' = Put(storedAt, r.key, now)

\* the setTimeout callback of searchMovies / getMovieDetails
TimeoutFires(r) ==
    /\ r.timer /\ Due(r.issuedAt + SEARCH_TIMEOUT)
    /\ IF r.own
       THEN Finish(r, Rejected(rethrow(r.type, AbortError)))
       ELSE /\ microtasks = <<>>
            /\ requests' = (requests \ {r}) \cup {[r EXCEPT !.timer = FALSE]}
            /\ lastOp' = [op |-> "timeout", id |-> r.id]
            /\ prevOp' = Brief(lastOp)
            /\ UNCHANGED <<now, ticks, envVars, appVars, nextId,
                           microtasks, succeeded>>
    /\ UNCHANGED cacheVars

DetailPayload(plot) ==
    [Response |-> "True", imdbID |-> <<"tt1">>, Plot |-> plot]

ErrorBody == [Response |-> "False", Error |-> <<"Movie not found!">>]

\* failure responses whose Error text is empty or missing
BareFailures == { [Response |-> "False", Error |-> <<>>], [Response |-> "False"] }

\* what response.json() may yield for request r
Bodies(r) ==
    IF r.caller = "performSearch" THEN {ErrorBody} \cup Payloads
    ELSE IF r.caller = "loadPopularMovies"
    THEN {ErrorBody, [Response |-> "True"], SearchPayload(<<>>, 0),
          SearchPayload(<<"m1">>, 5),
          SearchPayload(<<"m1", "m2", "m3", "m4">>, 40)}
    ELSE IF r.caller = "openMovieDetails"
    THEN {ErrorBody, [DetailPayload("p1") EXCEPT !.imdbID = r.arg]}
    ELSE IF r.type = "search"
    THEN {ErrorBody, [Response |-> "True"]} \cup CachePayloads
    ELSE {ErrorBody, [Response |-> "True"], DetailPayload("p1"), DetailPayload("p2")}
         \cup BareFailures

\* what the network and the timers may do to a request in flight
NetworkEvent ==
    \/ \E r \in requests : FetchFails(r)
    \/ \E r \in requests : HttpErrorResponse(r)
    \/ \E r \in requests : HeadersArrive(r)
    \/ \E r \in requests : BodyFails(r)
    \/ \E r \in requests, ok \in BOOLEAN :
          \E data \in Bodies(r) : BodyArrives(r, data, ok)
    \/ \E r \in requests : TimeoutFires(r)

Network ==
    \/ RunMicrotask
    \/ NetworkEvent

(***************************************************************************)
(* The exported functions of api.js called directly, with or without a     *)
(* caller-supplied AbortSignal.                                            *)
(***************************************************************************)
CallApi(type, arg, page, withSignal) ==
    LET e == entry(type, arg, page)
        key == cacheKey(type, arg, page)
        c == [id |-> nextId, caller |-> "api", type |-> type, arg |-> arg,
              page |-> page, fetched |-> FALSE]
    IN
    /\ microtasks = <<>>
    /\ nextId <= MaxApiCalls
    /\ nextId' = nextId + 1
    /\ IF ReachesCache(type, arg)
       THEN /\ memoryCache' = getFromCache_memory(key)
            /\ localStorage' = getFromCache_storage(key)
            /\ storedAt' = storedAt_afterGet(key)
       ELSE UNCHANGED cacheVars
    /\ requests' = requests \cup
          (IF e.state = "pending"
           THEN {NewRequest(nextId, "api", type, arg, page, ~ withSignal, 0)}
           ELSE {})
    /\ succeeded' = Succeeded(c, e)
    /\ lastOp' = [op |-> "call", id |-> nextId, type |-> type, arg |-> arg,
                  page |-> page, out |-> e, at |-> now,
                  prior |-> IF CallArgs(c) \in DOMAIN succeeded
                            THEN succeeded[CallArgs(c)] ELSE Null]
    /\ prevOp' = Brief(lastOp)
    /\ UNCHANGED <<now, ticks, envVars, appVars, microtasks>>

\* the caller aborts the signal it passed
AbortSignal(r) ==
    /\ ~ r.own
    /\ r.caller = "api"
    /\ Deliver(r, [r EXCEPT !.aborted = TRUE], Rejected(rethrow(r.type, AbortError)))
    /\ UNCHANGED cacheVars

ApiTerms == { <<>>, <<"a">> }

ApiIds == { <<"tt1">> }

ApiSearchArgs == { <<t, 1>> : t \in ApiTerms }

ApiNext ==
    \/ \E a \in ApiSearchArgs, withSignal \in BOOLEAN :
          CallApi("search", a[1], a[2], withSignal)
    \/ \E arg \in ApiIds : CallApi("detail", arg, 1, FALSE)
    \/ \E r \in requests : AbortSignal(r)
    \/ CallClearCache
    \/ NetworkEvent
    \/ \E d \in {1, SEARCH_TIMEOUT} : Tick(d)

\* storage left by an earlier session: nothing, or an entry aged exactly 24 h
ApiInit ==
    /\ Init
    /\ lsAvailable =>
          localStorage \in
              { ForeignStorage,
                Put(ForeignStorage, StorageName(SearchKey(<<"a">>, 1)),
                    OldEntry(SearchPayload(<<"m1">>, 5), 1)) }

ApiSpec == ApiInit /\ [][ApiNext]_vars

(***************************************************************************)
(* Argument validation: the exported functions called with empty,          *)
(* whitespace-only and valid arguments, and the search form used with an   *)
(* empty or whitespace-only field.                                         *)
(***************************************************************************)
BlankValues == { <<>>, <<" ">> }

ValidationNext ==
    \/ \E t \in BlankValues \cup {<<"a">>} : CallApi("search", t, 1, FALSE)
    \/ \E i \in BlankValues : CallApi("detail", i, 1, FALSE)
    \/ \E v \in BlankValues : InputEvent(v)
    \/ DebounceFires
    \/ Submit
    \/ NetworkEvent
    \/ Tick(SEARCH_TIMEOUT)

ValidationSpec == ApiInit /\ [][ValidationNext]_vars

(***************************************************************************)
(* Cache keys: searchMovies called with terms that differ in letter case   *)
(* and in surrounding whitespace, and with different pages.                *)
(***************************************************************************)
KeyArgs ==
    { <<(<<"a">>), 1>>, <<(<<"A">>), 1>>, <<(<<" ", "a">>), 1>>, <<(<<"a">>), 2>> }

KeyNext ==
    \/ \E a \in KeyArgs : CallApi("search", a[1], a[2], FALSE)
    \/ \E i \in ApiIds : CallApi("detail", i, 1, FALSE)
    \/ NetworkEvent
    \/ Tick(SEARCH_TIMEOUT)

KeyInit == Init /\ (lsAvailable => localStorage = ForeignStorage)

KeySpec == KeyInit /\ [][KeyNext]_vars

\* the query string parameters s and page that searchMovies sends, up to
\* letter case
OutboundQuery(searchTerm, page) == <<toLowerCase(trim(searchTerm)), page>>

\* C14: a searchMovies call that sends the same outbound query as an earlier
\* successful call is answered from the entry that call wrote; calls with a
\* different normalized term or page, and detail lookups, have other keys.
SameQuerySameCacheEntry ==
    /\ (lastOp.op = "call" /\ lastOp.type = "search")
          => \A k \in DOMAIN succeeded :
                (k[1] = "search"
                 /\ OutboundQuery(k[2], k[3]) = OutboundQuery(lastOp.arg, lastOp.page))
                    => lastOp.out = Fulfilled(succeeded[k].data)
    /\ \A a, b \in KeyArgs :
          OutboundQuery(a[1], a[2]) # OutboundQuery(b[1], b[2])
              => SearchKey(a[1], a[2]) # SearchKey(b[1], b[2])
    /\ \A a \in KeyArgs, i \in ApiIds : SearchKey(a[1], a[2]) # DetailKey(i)

(***************************************************************************)
(* Cancellation: searchMovies and getMovieDetails called with a signal of  *)
(* the caller, which the caller may abort while the request is in flight.  *)
(***************************************************************************)
AbortNext ==
    \/ CallApi("search", <<"a">>, 1, TRUE)
    \/ \E i \in ApiIds : CallApi("detail", i, 1, TRUE)
    \/ \E r \in requests : AbortSignal(r)
    \/ NetworkEvent
    \/ Tick(SEARCH_TIMEOUT)

AbortSpec == KeyInit /\ [][AbortNext]_vars

\* C15: a call whose caller-supplied signal is aborted while its request is
\* outstanding rejects with 'Busca cancelada.' (search) or 'Requisicao
\* cancelada.' (detail), so not with data and not with a transport or data
\* error, and the step leaves both cache tiers as they were.
AbortedCallIsCancelled ==
    [][(lastOp'.op = "settle" /\ lastOp'.aborted) =>
          /\ lastOp'.out.state = "rejected"
          /\ lastOp'.out.error.name = "Error"
          /\ lastOp'.out.error.message =
                IF lastOp'.type = "search"
                THEN <<"Busca cancelada.">> ELSE <<"Requisicao cancelada.">>
          /\ memoryCache' = memoryCache
          /\ localStorage' = localStorage]_vars

DetailAbortedBesideCachedSearch ==
    /\ lastOp.op = "settle" /\ lastOp.aborted
    /\ lastOp.type = "detail"
    /\ lastOp.out = Rejected(DetailCancelled)
    /\ DOMAIN memoryCache = {SearchKey(<<"a">>, 1)}

(***************************************************************************)
(* Response validation: one search and one detail call with a controller   *)
(* of their own, answered by any of the bodies.                            *)
(***************************************************************************)
ResponseNext ==
    \/ CallApi("search", <<"a">>, 1, FALSE)
    \/ \E i \in ApiIds : CallApi("detail", i, 1, FALSE)
    \/ NetworkEvent
    \/ Tick(SEARCH_TIMEOUT)

ResponseSpec == KeyInit /\ [][ResponseNext]_vars

\* what C16 says of a response without the failure flag
MalformedResponseMessage(o) ==
    /\ (o.type = "search" /\ o.body.Response # "False" /\ "Search" \notin DOMAIN o.body)
          => o.out = Rejected(Err("Error", <<"Nenhum resultado encontrado.">>))
    /\ (o.type = "detail" /\ o.body.Response # "False" /\ "imdbID" \notin DOMAIN o.body)
          => o.out = Rejected(Err("Error", <<"Filme nao encontrado.">>))

\* C16 as stated: a call whose response has Response = 'False' fails with
\* exactly the response's Error text as message; a search response without
\* Search fails with 'Nenhum resultado encontrado.', a detail response
\* without imdbID with 'Filme nao encontrado.'.
FailureCarriesErrorText ==
    (lastOp.op = "settle" /\ lastOp.body # Null) =>
        /\ (lastOp.body.Response = "False" /\ "Error" \in DOMAIN lastOp.body)
              => lastOp.out = Rejected(Err("Error", lastOp.body.Error))
        /\ MalformedResponseMessage(lastOp)

\* C16 amended: the message is the response's Error text when that text is
\* not empty, and 'Erro na API OMDb' when it is empty or missing; the two
\* messages for responses without Search / imdbID are as stated.
FailureCarriesErrorTextOrDefault ==
    (lastOp.op = "settle" /\ lastOp.body # Null) =>
        /\ (lastOp.body.Response = "False")
              => lastOp.out =
                    Rejected(Err("Error",
                        IF "Error" \in DOMAIN lastOp.body /\ lastOp.body.Error # <<>>
                        THEN lastOp.body.Error ELSE <<"Erro na API OMDb">>))
        /\ MalformedResponseMessage(lastOp)

DetailFailedWithErrorText ==
    /\ lastOp.op = "settle" /\ lastOp.type = "detail"
    /\ lastOp.body = ErrorBody
    /\ lastOp.out = Rejected(Err("Error", <<"Movie not found!">>))

\* C17: when the body of a call is valid and the localStorage write of
\* setCache throws, the call still fulfils with the payload, the payload is
\* in the in-memory map under the call's key, the in-memory entries of all
\* other keys are as before, and localStorage is as before.
FailedWriteStillCaches ==
    [][(/\ lastOp'.op = "settle" /\ lastOp'.body # Null
        /\ lastOp'.body.Response # "False"
        /\ (IF lastOp'.type = "search" THEN "Search" ELSE "imdbID") \in DOMAIN lastOp'.body
        /\ ~ lastOp'.written)
          => LET key == cacheKey(lastOp'.type, lastOp'.arg, lastOp'.page) IN
             /\ lastOp'.out = Fulfilled(lastOp'.body)
             /\ DOMAIN memoryCache' = DOMAIN memoryCache \cup {key}
             /\ memoryCache'[key] = lastOp'.body
             /\ \A k \in DOMAIN memoryCache \ {key} : memoryCache'[k] = memoryCache[k]
             /\ localStorage' = localStorage]_vars

DetailCachedDespiteQuota ==
    /\ lastOp.op = "settle" /\ lastOp.type = "detail"
    /\ lastOp.out.state = "fulfilled" /\ ~ lastOp.written
    /\ lsAvailable
    /\ DOMAIN memoryCache = {SearchKey(<<"a">>, 1), DetailKey(<<"tt1">>)}
    /\ StorageName(SearchKey(<<"a">>, 1)) \in DOMAIN localStorage
    /\ StorageName(DetailKey(<<"tt1">>)) \notin DOMAIN localStorage

Next ==
    \/ \E v \in InputValues : InputEvent(v)
    \/ DebounceFires
    \/ Submit
    \/ ClickNext
    \/ ClickPrev
    \/ Network
    \/ Tick(SEARCH_TIMEOUT)

\* The search controller from the moment init() has attached the listeners;
\* the landing batch that init() starts (loadPopularMovies) is not part of
\* this specification.  localStorage is inaccessible, or holds a fresh entry
\* of an earlier session.
SpecInit ==
    /\ Init
    /\ lsAvailable =>
          localStorage =
              Put(ForeignStorage, StorageName(SearchKey(<<"a">>, 1)),
                  OldEntry(SearchPayload(<<"m1">>, 5), StartTime))

Spec == SpecInit /\ [][Next]_vars

\* C28: a form submit supersedes the pending debounced search: once the
\* form has been submitted within 300 ms of an input event, the debounced
\* handler of that input event starts no search (and so no second request
\* for the term); only a new input event lets it start one.
SubmitSupersedesDebounce ==
    [][ (lastOp'.op = "start" /\ lastOp'.origin = "debounce")
            => ~ typed.submitted ]_vars

\* C19: a search whose response is well-formed with zero items ends with
\* '0 resultados encontrados', and 'Erro na busca' is written only by a
\* search that failed with a transport, data or configuration error, so
\* never by a search that was cancelled.
EmptyIsNotFailure ==
    [][(lastOp'.op = "settle" /\ lastOp'.caller = "performSearch") =>
          /\ (/\ lastOp'.body # Null
              /\ lastOp'.body.Response = "True"
              /\ "Search" \in DOMAIN lastOp'.body
              /\ Len(lastOp'.body.Search) = 0)
                => view'.count = <<"0 resultados encontrados">>
          /\ (view'.count = <<"Erro na busca">> /\ view' # view)
                => /\ lastOp'.out.state = "rejected"
                   /\ ~ lastOp'.aborted]_vars

(***************************************************************************)
(* The landing batch: init() calls loadPopularMovies once, which starts    *)
(* the searches of both terms before it yields; the visitor does not       *)
(* touch the page while the batch loads.                                   *)
(***************************************************************************)
LoadPopularMovies ==
    LET e == [i \in 1..2 |-> entry("search", PopularTerms[i], 1)]
        key == [i \in 1..2 |-> cacheKey("search", PopularTerms[i], 1)]
        c == [i \in 1..2 |->
                [id |-> nextId + i - 1, caller |-> "loadPopularMovies",
                 type |-> "search", arg |-> PopularTerms[i], page |-> 1,
                 fetched |-> FALSE]]
        settledNow == (IF e[1].state # "pending" THEN <<e[1]>> ELSE <<>>)
                      \o (IF e[2].state # "pending" THEN <<e[2]>> ELSE <<>>)
        l == Collect([landing EXCEPT !.state = "loading"], settledNow)
        loading == [view EXCEPT !.results = renderLoadingState,
                                !.count = <<"Carregando filmes populares...">>]
    IN
    /\ microtasks = <<>>
    /\ isValidAPIKey(apiKey)
    /\ landing.state = "idle"
    /\ nextId + 1 <= MaxCalls
    /\ nextId' = nextId + 2
    /\ memoryCache' = getFromCache_memory(key[1]) @@ getFromCache_memory(key[2])
    /\ localStorage' =
          [n \in DOMAIN getFromCache_storage(key[1])
                   \cap DOMAIN getFromCache_storage(key[2]) |-> localStorage[n]]
    /\ storedAt' = storedAt_afterGet(key[1]) @@ storedAt_afterGet(key[2])
    /\ requests' = requests \cup
          { NewRequest(c[i].id, "loadPopularMovies", "search", PopularTerms[i],
                       1, TRUE, 0) : i \in {j \in 1..2 : e[j].state = "pending"} }
    /\ IF loadPopularMovies_settled(l)
       THEN /\ landing' = [l EXCEPT !.state = "done"]
            /\ appState' = loadPopularMovies_state(appState, l)
            /\ view' = loadPopularMovies_view(loading, l)
       ELSE /\ landing' = l
            /\ appState' = appState
            /\ view' = loading
    /\ renderedBy' = nextId
    /\ succeeded' = Succeeded(c[1], e[1]) @@ Succeeded(c[2], e[2])
    /\ lastOp' = [op |-> "landing", settled |-> Len(settledNow)]
    /\ prevOp' = Brief(lastOp)
    /\ UNCHANGED <<now, ticks, envVars, input, debounceTimer, latest, typed,
                   microtasks, modal>>

PopularNext ==
    \/ LoadPopularMovies
    \/ NetworkEvent
    \/ Tick(SEARCH_TIMEOUT)

PopularInit ==
    /\ Init
    /\ isValidAPIKey(apiKey)
    /\ lsAvailable =>
          localStorage \in
              { ForeignStorage,
                Put(ForeignStorage, StorageName(SearchKey(PopularTerms[1], 1)),
                    OldEntry(SearchPayload(<<"m1", "m2">>, 25), StartTime)) }

PopularSpec == PopularInit /\ [][PopularNext]_vars

\* the movies a term search contributes: at most three, none when it failed
Yielded(out) ==
    IF out.state = "fulfilled" /\ "Search" \in DOMAIN out.data
    THEN SubSeq(out.data.Search, 1,
                IF Len(out.data.Search) > 3 THEN 3 ELSE Len(out.data.Search))
    ELSE <<>>

\* C20: when loadPopularMovies has finished, the results container shows
\* the error state exactly if no term search yielded a movie; otherwise it
\* shows the grid of the movies yielded, whatever the other term search
\* did, and the message of a failed term search is never shown.
PopularErrorIffNothingLoaded ==
    landing.state = "done" =>
        LET got == Yielded(landing.outcomes[1]) \o Yielded(landing.outcomes[2]) IN
        /\ (view.results.kind = "error") <=> (got = <<>>)
        /\ got # <<>> =>
              /\ view.results = [kind |-> "grid", movies |-> got, message |-> <<>>]
              /\ appState.currentMovies = got
        /\ got = <<>> =>
              view.results.message = <<"Nao foi possivel carregar filmes populares.">>

PopularGridDespiteFailedTerm ==
    /\ landing.state = "done"
    /\ lastOp.op = "settle"
    /\ landing.outcomes[1].state = "rejected"
    /\ landing.outcomes[2].state = "fulfilled"
    /\ view.results.kind = "grid"
    /\ Len(view.results.movies) = 3

(***************************************************************************)
(* Service worker (sw.js).  A request is its method, the origin and the    *)
(* path of its URL (name and extension) and whether it accepts text/html;  *)
(* the cache matches a request by its URL.                                 *)
(***************************************************************************)
Undefined == [undefined |-> TRUE]

NetworkFailure == [failed |-> TRUE]

SwRequest(method, origin, name, ext, html) ==
    [method |-> method, origin |-> origin, name |-> name, ext |-> ext,
     html |-> html]

Url(request) == <<request.origin, request.name, request.ext>>

PlaceholderUrl == <<"site", "assets/placeholder", ".svg">>

\* the entries of ASSETS_TO_CACHE that the model follows
ASSETS_TO_CACHE == { <<"site", "styles/styles", ".css">>, PlaceholderUrl }

Response(status, type, body) == [status |-> status, type |-> type, body |-> body]

ok(response) == response.status >= 200 /\ response.status <= 299

OfflineResponse == Response(503, "default", "Offline")

OfflinePage == Response(200, "default", "<h1>Offline</h1>")

\* caches.match(request)
match(url) == IF url \in DOMAIN sw.cache THEN sw.cache[url] ELSE Undefined

StaticExtensions == {".css", ".js", ".svg", ".png", ".jpg", ".jpeg", ".webp"}

ImageExtensions == {".svg", ".png", ".jpg", ".jpeg", ".webp"}

\* which branch of the fetch listener takes the request
branch(request) ==
    IF request.method # "GET" THEN "ignored"
    ELSE IF request.origin = "https://www.omdbapi.com" THEN "omdb"
    ELSE IF request.ext \in StaticExtensions THEN "static"
    ELSE IF request.html THEN "html"
    ELSE "default"

\* variant: the static branch asks the network first
answer_networkFirst(request, net, cloned) ==
    LET b == branch(request) IN
    IF b = "ignored" THEN net
    ELSE IF net # NetworkFailure THEN net
    ELSE IF b = "static"
    THEN (IF match(Url(request)) # Undefined THEN match(Url(request))
          ELSE IF request.ext \in ImageExtensions THEN match(PlaceholderUrl)
          ELSE OfflineResponse)
    ELSE IF b = "html" /\ match(Url(request)) = Undefined THEN OfflinePage
    ELSE match(Url(request))

\* what the page receives; net is the outcome the network would give,
\* cloned tells whether response.clone() ran before the body was taken
answer(request, net, cloned) ==
    LET b == branch(request) IN
    IF b = "ignored" THEN net
    ELSE IF b = "static"
    THEN (IF match(Url(request)) # Undefined THEN match(Url(request))
          ELSE IF net # NetworkFailure THEN net
          ELSE IF request.ext \in ImageExtensions THEN match(PlaceholderUrl)
          ELSE OfflineResponse)
    ELSE IF net # NetworkFailure THEN net
    ELSE IF b = "html" /\ match(Url(request)) = Undefined THEN OfflinePage
    ELSE match(Url(request))

\* whether the listener calls fetch(request)
fetches(request) ==
    branch(request) \in {"omdb", "html", "default"}
    \/ (branch(request) = "static" /\ match(Url(request)) = Undefined)

\* the cache after the listener's cache.put, if it makes one
cacheAfter(request, net, cloned) ==
    LET b == branch(request) IN
    IF net = NetworkFailure THEN sw.cache
    ELSE IF b \in {"omdb", "html"}
    THEN (IF ok(net) /\ cloned THEN Put(sw.cache, Url(request), net) ELSE sw.cache)
    ELSE IF b = "static" /\ match(Url(request)) = Undefined
    THEN (IF net.status = 200 /\ net.type = "basic"
          THEN Put(sw.cache, Url(request), net) ELSE sw.cache)
    ELSE sw.cache

\* 'install': addAll caches every asset, or after its failure each asset
\* is added on its own and those in cached are the ones that succeed
Install(cached) ==
    /\ ~ sw.installed
    /\ sw' = [installed |-> TRUE,
              cache |-> [u \in cached |-> Response(200, "basic", "precached")]]
    /\ lastOp' = [op |-> "install"]
    /\ prevOp' = Brief(lastOp)
    /\ UNCHANGED <<now, ticks, apiKey, lsAvailable, cacheVars, netVars, appVars,
                   succeeded>>

\* 'fetch': the listener's answer to one request of a controlled page
SwFetch(request, net, cloned) ==
    /\ sw.installed
    /\ sw' = [sw EXCEPT !.cache = cacheAfter(request, net, cloned)]
    /\ lastOp' = [op |-> "swfetch", request |-> request,
                  intercepted |-> branch(request) # "ignored",
                  fetched |-> fetches(request),
                  net |-> IF fetches(request) \/ branch(request) = "ignored"
                          THEN net ELSE Undefined,
                  cached |-> match(Url(request)),
                  placeholder |-> match(PlaceholderUrl),
                  answer |-> answer(request, net, cloned)]
    /\ prevOp' = Brief(lastOp)
    /\ UNCHANGED <<now, ticks, apiKey, lsAvailable, cacheVars, netVars, appVars,
                   succeeded>>

SwRequests ==
    { SwRequest("GET", "https://www.omdbapi.com", "?s=a", "", FALSE),
      SwRequest("GET", "site", "styles/styles", ".css", FALSE),
      SwRequest("GET", "site", "scripts/extra", ".js", FALSE),
      SwRequest("GET", "site", "assets/poster", ".jpg", FALSE),
      SwRequest("POST", "site", "assets/upload", ".png", FALSE),
      SwRequest("GET", "site", "index", ".html", TRUE),
      SwRequest("GET", "site", "manifest", ".json", FALSE) }

\* what the network may give for the request
NetOutcomes(request) ==
    LET type == IF request.origin = "site" THEN "basic" ELSE "cors" IN
    { NetworkFailure, Response(200, type, "v1"), Response(200, type, "v2"),
      Response(500, type, "error") }

SwNext ==
    \/ \E cached \in SUBSET ASSETS_TO_CACHE : Install(cached)
    \/ \E request \in SwRequests, cloned \in BOOLEAN :
          \E net \in NetOutcomes(request) : SwFetch(request, net, cloned)

SwInit ==
    /\ Init
    /\ apiKey = "k1234567"
    /\ lsAvailable
    /\ localStorage = ForeignStorage

SwSpec == SwInit /\ [][SwNext]_vars

\* C23: for a GET request to the OMDb origin the service worker answers
\* with the network's response whenever the fetch succeeds and then holds
\* every ok response in its cache under the request; when the fetch fails
\* it answers with the response held for the request.
OmdbNetworkFirstAndStored ==
    [][(/\ lastOp'.op = "swfetch"
        /\ lastOp'.request.method = "GET"
        /\ lastOp'.request.origin = "https://www.omdbapi.com")
          => IF lastOp'.net # NetworkFailure
             THEN /\ lastOp'.answer = lastOp'.net
                  /\ (lastOp'.net.status \in 200..299)
                        => /\ Url(lastOp'.request) \in DOMAIN sw'.cache
                           /\ sw'.cache[Url(lastOp'.request)] = lastOp'.net
             ELSE Url(lastOp'.request) \in DOMAIN sw.cache
                     => lastOp'.answer = sw.cache[Url(lastOp'.request)]]_vars

\* C24: a GET request for a static asset with a cached response is
\* answered from the cache without a network fetch; on a miss with a failing
\* network an image request is answered with the cached placeholder and
\* any other asset with the 503 'Offline' response; a request that is not
\* a GET is not intercepted and leaves the cache alone.
StaticAssetsCacheFirst ==
    [][lastOp'.op = "swfetch" =>
          /\ lastOp'.request.method # "GET"
                => ~ lastOp'.intercepted /\ sw' = sw
          /\ (/\ lastOp'.request.method = "GET"
              /\ lastOp'.request.origin = "site"
              /\ lastOp'.request.ext \in
                    {".css", ".js", ".svg", ".png", ".jpg", ".jpeg", ".webp"})
                => IF Url(lastOp'.request) \in DOMAIN sw.cache
                   THEN /\ lastOp'.answer = sw.cache[Url(lastOp'.request)]
                        /\ ~ lastOp'.fetched
                   ELSE lastOp'.net = NetworkFailure =>
                          IF lastOp'.request.ext \in {".css", ".js"}
                          THEN /\ lastOp'.answer.status = 503
                               /\ lastOp'.answer.body = "Offline"
                          ELSE PlaceholderUrl \in DOMAIN sw.cache
                                  => lastOp'.answer = sw.cache[PlaceholderUrl]]_vars

ImageAnsweredWithPlaceholder ==
    /\ lastOp.op = "swfetch"
    /\ lastOp.request.ext = ".jpg"
    /\ lastOp.net = NetworkFailure
    /\ lastOp.cached = Undefined
    /\ lastOp.answer = Response(200, "basic", "precached")

(***************************************************************************)
(* The details modal: clicks on the "Detalhes" buttons of the grid, keys,  *)
(* the close buttons, and window.appDebug.clearCache.  open() and close()  *)
(* of the modal are also called directly, in any order.                    *)
(***************************************************************************)
\* click on the button of card imdbId: openMovieDetails up to its await,
\* and past it when getMovieDetails settles without a fetch
OpenMovieDetails(imdbId) ==
    LET e == entry("detail", imdbId, 1)
        key == cacheKey("detail", imdbId, 1)
        c == [id |-> nextId, caller |-> "openMovieDetails", type |-> "detail",
              arg |-> imdbId, page |-> 1, fetched |-> FALSE]
        trigger == [button |-> imdbId]
        hit == imdbId \in DOMAIN appState.movieDetailsCache
        loading == open(setContent(modal, [kind |-> "loading"]), trigger)
    IN
    /\ Idle
    /\ ~ modal.open
    /\ IF hit
       THEN /\ modal' = [open(setContent(modal,
                              renderMovieDetails(appState.movieDetailsCache[imdbId])),
                              trigger) EXCEPT !.requested = imdbId, !.seq = nextId]
            /\ UNCHANGED <<appState, cacheVars, netVars, succeeded>>
       ELSE /\ nextId <= MaxApiCalls
            /\ nextId' = nextId + 1
            /\ IF ReachesCache("detail", imdbId)
               THEN /\ memoryCache' = getFromCache_memory(key)
                    /\ localStorage' = getFromCache_storage(key)
                    /\ storedAt' = storedAt_afterGet(key)
               ELSE UNCHANGED cacheVars
            /\ requests' = requests \cup
                  (IF e.state = "pending"
                   THEN {NewRequest(nextId, "openMovieDetails", "detail", imdbId,
                                    1, TRUE, 0)}
                   ELSE {})
            /\ modal' = [(IF e.state = "pending" THEN loading
                          ELSE openMovieDetails_then(loading, e))
                         EXCEPT !.requested = imdbId, !.seq = nextId]
            /\ appState' = IF e.state = "pending" THEN appState
                           ELSE openMovieDetails_state(appState, imdbId, e)
            /\ succeeded' = Succeeded(c, e)
            /\ UNCHANGED microtasks
    /\ lastOp' = [op |-> "details", arg |-> imdbId, local |-> hit,
                  fetched |-> ~ hit /\ e.state = "pending",
                  known |-> CallArgs(c) \in DOMAIN succeeded]
    /\ prevOp' = Brief(lastOp)
    /\ UNCHANGED <<now, ticks, envVars, input, debounceTimer, view, latest,
                   renderedBy, typed, landing>>

\* a step that only touches the modal
ModalStep(m, o) ==
    /\ microtasks = <<>>
    /\ modal' = m
    /\ lastOp' = o
    /\ prevOp' = Brief(lastOp)
    /\ UNCHANGED <<now, ticks, envVars, cacheVars, netVars, input, debounceTimer,
                   appState, view, latest, renderedBy, typed, landing, succeeded>>

\* 'keydown' on the document
KeyDown(key) ==
    ModalStep(IF modal.escape THEN handleEscape(modal, key) ELSE modal,
              [op |-> "keydown", key |-> key, was |-> modal.open])

\* window.appDebug.clearCache(): localStorage.clear() throws when the
\* storage cannot be accessed, and the Map is then left as it was
DebugClearCache ==
    /\ microtasks = <<>>
    /\ localStorage' = EmptyMap
    /\ appState' = IF lsAvailable THEN [appState EXCEPT !.movieDetailsCache = EmptyMap]
                   ELSE appState
    /\ lastOp' = [op |-> "appDebug.clearCache", logged |-> lsAvailable]
    /\ prevOp' = Brief(lastOp)
    /\ UNCHANGED <<now, ticks, envVars, memoryCache, storedAt, netVars, input,
                   debounceTimer, view, latest, renderedBy, typed, landing, modal,
                   succeeded>>

ModalNext ==
    \/ \E imdbId \in {<<"tt1">>, <<"tt2">>} : OpenMovieDetails(imdbId)
    \/ \E trigger \in {Null, [button |-> <<"tt1">>]} :
          ModalStep(open(modal, trigger), [op |-> "open"])
    \/ ModalStep(close(modal), [op |-> "close", was |-> modal.open])
    \/ \E key \in {"Escape", "Tab"} : KeyDown(key)
    \/ DebugClearCache
    \/ \E r \in requests : FetchFails(r)
    \/ \E r \in requests : HeadersArrive(r)
    \/ \E r \in requests, writeOk \in BOOLEAN :
          \E data \in Bodies(r) : BodyArrives(r, data, writeOk)

\* the page has loaded with a valid key; no request outlives its timeout
ModalInit ==
    /\ Init
    /\ apiKey = "k1234567"
    /\ lsAvailable => localStorage = ForeignStorage

ModalSpec == ModalInit /\ [][ModalNext]_vars

\* the modal is closed: not open, no keydown listener left, the body scrolls
Shut(m) == ~ m.open /\ ~ m.trap /\ ~ m.escape /\ m.overflow = ""

\* C25: whatever opens and closes came before, a close() leaves the modal
\* not open, with the Tab-trap and the Escape keydown listeners unregistered
\* and the scrolling of the body restored; the Escape key closes the modal
\* in the same way when it is open and changes nothing when it is not.
CloseAndEscapeShutTheModal ==
    [][ /\ lastOp'.op = "close" => Shut(modal')
        /\ (lastOp'.op = "keydown" /\ lastOp'.key = "Escape") =>
              IF modal.open THEN Shut(modal') ELSE modal' = modal ]_vars

\* Escape was pressed on the open modal showing the details of a movie that
\* had been opened, closed and opened again
EscapeClosedReopenedDetails ==
    /\ lastOp.op = "keydown" /\ lastOp.key = "Escape" /\ lastOp.was
    /\ Shut(modal)
    /\ modal.content.kind = "details"
    /\ modal.requested \in DOMAIN appState.movieDetailsCache
    /\ modal.focus = [button |-> modal.requested]

\* C26: when the details of several movies are requested one after another
\* and the responses arrive in any order, the response (or failure) of a
\* request made before the latest openMovieDetails never replaces the
\* content of the modal, which therefore ends up showing the movie
\* requested last.
LateDetailsNeverShown ==
    [][ (/\ lastOp'.op = "settle" /\ lastOp'.caller = "openMovieDetails"
         /\ lastOp'.id < modal.seq /\ lastOp'.arg # modal.requested)
            => modal'.content = modal.content ]_vars

\* C30: the openMovieDetails that follows window.appDebug.clearCache()
\* ("Cache limpo" logged) for a movie whose response was cached earlier in
\* the session issues a fetch.
DetailsAfterDebugClearAreFetched ==
    [][ (/\ lastOp.op = "appDebug.clearCache" /\ lastOp.logged
         /\ lastOp'.op = "details" /\ lastOp'.known) => lastOp'.fetched ]_vars

(***************************************************************************)
(* The landing batch with a visitor who does not wait for it: init() has   *)
(* registered the listeners before it calls loadPopularMovies, so input    *)
(* and submit events are served while the batch is outstanding.            *)
(***************************************************************************)
LandingNext ==
    \/ LoadPopularMovies
    \/ landing.state # "idle" /\ InputEvent(<<"a">>)
    \/ landing.state # "idle" /\ Submit
    \/ RunMicrotask
    \/ NetworkEvent
    \/ Tick(SEARCH_TIMEOUT)

LandingSpec == PopularInit /\ [][LandingNext]_vars

\* C27: once the visitor has started a search, the completion of the
\* loadPopularMovies batch started by init() changes neither
\* appState.currentMovies nor the results grid nor the results count.
LandingLeavesStartedSearchAlone ==
    [][ (/\ lastOp'.op = "settle" /\ lastOp'.caller = "loadPopularMovies"
         /\ latest # 0)
            => /\ appState'.currentMovies = appState.currentMovies
               /\ view'.results = view.results
               /\ view'.count = view.count ]_vars

(***************************************************************************)
(* Calls over whatever an earlier session left in localStorage: nothing,   *)
(* entries of any age, a text that does not parse, or no access at all.    *)
(***************************************************************************)
UnreadableSpec == CacheInit /\ [][ResponseNext]_vars

\* the persistent entry of key cannot be read or parsed
Unreadable(key) ==
    \/ ~ lsAvailable
    \/ /\ StorageName(key) \in DOMAIN localStorage
       /\ ~ localStorage[StorageName(key)].json

\* C29: when the persistent entry of a call's key cannot be read (access to
\* localStorage throws) or parsed, and the in-memory tier has no entry, the
\* lookup raises nothing and yields null: the searchMovies or
\* getMovieDetails call issues its request as on an ordinary miss, leaving
\* both cache tiers as they were.
UnreadableEntryIsAMiss ==
    [][ (/\ lastOp'.op = "call"
         /\ ReachesCache(lastOp'.type, lastOp'.arg)
         /\ cacheKey(lastOp'.type, lastOp'.arg, lastOp'.page) \notin DOMAIN memoryCache
         /\ Unreadable(cacheKey(lastOp'.type, lastOp'.arg, lastOp'.page)))
            => /\ lastOp'.out = Pending
               /\ \E r \in requests' :
                     /\ r.id = lastOp'.id /\ r.stage = "fetch"
                     /\ r.key = cacheKey(lastOp'.type, lastOp'.arg, lastOp'.page)
               /\ memoryCache' = memoryCache /\ localStorage' = localStorage ]_vars

\* a search was called over a stored text that does not parse, and its
\* request is in flight
SearchFetchedOverCorruptEntry ==
    /\ lastOp.op = "call" /\ lastOp.type = "search"
    /\ lastOp.out = Pending
    /\ lsAvailable
    /\ StorageName(SearchKey(lastOp.arg, lastOp.page)) \in DOMAIN localStorage
    /\ localStorage[StorageName(SearchKey(lastOp.arg, lastOp.page))] = CorruptText
    /\ \E r \in requests : r.id = lastOp.id

(***************************************************************************)
(* Failing calls: searchMovies and getMovieDetails called one at a time,   *)
(* with or without a signal, over a store that holds an expired entry.     *)
(***************************************************************************)
FailureNext ==
    \/ \E withSignal \in BOOLEAN :
          requests = {} /\ CallApi("search", <<"a">>, 1, withSignal)
    \/ \E i \in ApiIds, withSignal \in BOOLEAN :
          requests = {} /\ CallApi("detail", i, 1, withSignal)
    \/ \E r \in requests : AbortSignal(r)
    \/ NetworkEvent
    \/ Tick(SEARCH_TIMEOUT)

FailureInit ==
    /\ Init
    /\ lsAvailable =>
          localStorage =
              Put(ForeignStorage, StorageName(SearchKey(<<"a">>, 1)),
                  OldEntry(SearchPayload(<<"m1">>, 5), 0))

FailureSpec == FailureInit /\ [][FailureNext]_vars

\* the step settles a call with a failure and writes to neither tier
FailureWritesNothing ==
    (lastOp'.op = "settle" /\ lastOp'.out.state = "rejected")
        => memoryCache' = memoryCache /\ localStorage' = localStorage

\* C22 as stated: a call that ends in a failure leaves both tiers as they
\* were before the call: its last step writes nothing, and its lookup at
\* the start had changed nothing.
FailedCallLeavesCacheAsBefore ==
    [][/\ FailureWritesNothing
       /\ (lastOp'.op = "settle" /\ lastOp'.out.state = "rejected")
             => ~ lastOp'.purged]_vars

\* C22 amended: a failing call writes nothing; the in-memory map is as it
\* was before the call, and so is localStorage except that the lookup at
\* the start of the call removes an expired entry under the call's own key.
FailedCallOnlyPurgesExpired ==
    [][/\ FailureWritesNothing
       /\ (lastOp'.op = "call" /\ lastOp'.out.state # "fulfilled") =>
             LET name == StorageName(cacheKey(lastOp'.type, lastOp'.arg, lastOp'.page)) IN
             /\ memoryCache' = memoryCache
             /\ \/ localStorage' = localStorage
                \/ /\ name \in DOMAIN localStorage
                   /\ now - localStorage[name].value.timestamp > 24 * 60 * 60 * 1000
                   /\ localStorage' = Remove(localStorage, name)
       /\ lastOp'.op \in {"headers", "timeout", "tick"}
             => memoryCache' = memoryCache /\ localStorage' = localStorage]_vars

FailedAfterPurgingExpiredEntry ==
    /\ lastOp.op = "settle" /\ lastOp.out.state = "rejected"
    /\ lastOp.purged
    /\ memoryCache = EmptyMap
    /\ DOMAIN localStorage = DOMAIN ForeignStorage

(***************************************************************************)
(* Typing: bursts of input events with pauses of 100 ms and 300 ms, while  *)
(* the network stays silent.                                               *)
(***************************************************************************)
DebounceNext ==
    \/ \E v \in InputValues : InputEvent(v)
    \/ DebounceFires
    \/ RunMicrotask
    \/ \E d \in {100, DEBOUNCE_DELAY} : Elapse(d, MaxWaits)

DebounceSpec == SpecInit /\ [][DebounceNext]_vars

\* C18: the debounced handler runs only when at least 300 ms have passed
\* since the most recent input event, and once per quiet period: after the
\* last input event the handler has run once when the timer is gone and not
\* at all while it is pending, and it has called performSearch once if the
\* field was not blank and never if it was.
DebouncedOncePerQuietPeriod ==
    [][/\ typed'.runs <= 1
       /\ typed'.at # 0 => (typed'.runs = 0 <=> debounceTimer' # 0)
       /\ typed'.runs > typed.runs =>
             /\ typed'.at = typed.at
             /\ now >= typed.at + 300
             /\ typed'.searches = IF trim(input) = <<>> THEN 0 ELSE 1
             /\ lastOp'.op = IF trim(input) = <<>> THEN "debounce" ELSE "start"
       /\ typed'.runs <= typed.runs =>
             typed'.searches = IF typed'.at = typed.at THEN typed.searches ELSE 0]_vars

BurstOfTwoSearchedOnce ==
    /\ typed.runs = 1 /\ typed.searches = 1
    /\ lastOp.op = "start" /\ lastOp.origin = "debounce"
    /\ lastOp.id = 1
    /\ typed.at = StartTime + 100
    /\ now = typed.at + DEBOUNCE_DELAY

(***************************************************************************)
(* Properties of the request lifecycle, checked under ApiSpec.             *)
(***************************************************************************)

\* C4: a search or detail request still waiting for its response
\* SEARCH_TIMEOUT after it was issued has been aborted, with or without a
\* caller-supplied signal: once the deadline has been served no such request
\* is outstanding.
TimeoutAbortsOutstanding ==
    \A r \in requests :
        (r.stage = "fetch" /\ now >= r.issuedAt + SEARCH_TIMEOUT) => r.timer

\* C8: a call whose arguments equal those of an earlier successful call,
\* made within the TTL of that entry and with no clearCache in between,
\* returns the payload of that call and issues no fetch.
RepeatedCallServedFromCache ==
    (/\ lastOp.op = "call"
     /\ lastOp.prior # Null
     /\ lastOp.at - lastOp.prior.at <= CacheTTL)
        => lastOp.out = Fulfilled(lastOp.prior.data)

RepeatedCallAfterFailedWrite ==
    /\ lastOp.op = "call"
    /\ lastOp.prior # Null
    /\ lastOp.out = Fulfilled(lastOp.prior.data)
    /\ StorageName(cacheKey(lastOp.type, lastOp.arg, lastOp.page))
          \notin DOMAIN localStorage

\* C12: with the placeholder, an empty or a key of at most five characters
\* configured, every searchMovies / getMovieDetails call is rejected with
\* the configuration error and no fetch is ever outstanding, whatever the
\* arguments and whatever the cache holds.
InvalidKeyRejectsEveryCall ==
    (apiKey = "YOUR_API_KEY_HERE" \/ apiKey = "" \/ Len(apiKey) <= 5)
        => /\ requests = {}
           /\ lastOp.op = "call" => lastOp.out = Rejected(ConfigError)

InvalidKeyRejectsCachedSearch ==
    /\ apiKey = "abcde"
    /\ lastOp.op = "call" /\ lastOp.type = "search" /\ lastOp.arg = <<"a">>
    /\ FreshInStorage(SearchKey(<<"a">>, 1))
    /\ lastOp.out = Rejected(ConfigError)

\* what a call with an empty or whitespace-only argument, or a search started
\* with such an input field, must do
BlankArgumentStep ==
    /\ (lastOp'.op = "call" /\ lastOp'.arg \in BlankValues)
          => /\ lastOp'.out =
                   Rejected(IF lastOp'.type = "search" THEN SearchValidationError
                            ELSE DetailValidationError)
             /\ requests' = requests
             /\ memoryCache' = memoryCache
             /\ localStorage' = localStorage
    /\ (lastOp'.op = "start" /\ input \in BlankValues)
          => /\ requests' = requests
             /\ microtasks' = microtasks
             /\ memoryCache' = memoryCache
             /\ localStorage' = localStorage

\* C13 as stated: searchMovies / getMovieDetails with an empty or
\* whitespace-only argument fail with the validation error, issue no fetch
\* and leave both cache tiers unchanged; performSearch with an empty input
\* issues no request.
BlankArgumentRejected == [][BlankArgumentStep]_vars

\* C13 amended: the same, for calls made with a valid API key configured.
BlankArgumentRejectedWithValidKey ==
    [][~ (apiKey = "YOUR_API_KEY_HERE" \/ apiKey = "" \/ Len(apiKey) <= 5)
          => BlankArgumentStep]_vars

WhitespaceTermRejectedWithCacheFilled ==
    /\ lastOp.op = "call" /\ lastOp.type = "search" /\ lastOp.arg = <<" ">>
    /\ lastOp.out = Rejected(SearchValidationError)
    /\ memoryCache # EmptyMap

(***************************************************************************)
(* Properties of the search controller, checked under Spec.                *)
(***************************************************************************)
Quiescent == requests = {} /\ microtasks = <<>>

\* C1: once a newer search has started, the settlement of an earlier search
\* changes neither currentMovies, totalResults, the results container nor the
\* results count; when nothing is pending the results container shows the
\* outcome of the most recently started search.
LatestSearchWins ==
    /\ [][(lastOp'.op = "settle" /\ lastOp'.superseded)
            => /\ appState'.currentMovies = appState.currentMovies
               /\ appState'.totalResults = appState.totalResults
               /\ view'.results = view.results
               /\ view'.count = view.count]_vars
    /\ [](Quiescent => renderedBy = latest)

\* C2: at most one request started by performSearch is in flight with a
\* signal that has not been aborted.
AtMostOneSearchInFlight ==
    Cardinality({r \in requests : r.caller = "performSearch"}) <= 1

\* C3: the cancellation of a superseded search is never displayed: neither
\* the error state nor the 'Erro na busca' count is rendered for it.
CancellationNeverDisplayed ==
    /\ view.results.message # SearchCancelled.message
    /\ (lastOp.op = "settle" /\ lastOp.out = Rejected(SearchCancelled))
          => view.count # <<"Erro na busca">>

\* C5: handlePageChange(n) searches page n of the current search: the call it
\* starts carries page n and the term held in appState.currentSearchTerm.
PageChangeSearchesThatPage ==
    (lastOp.op = "start" /\ lastOp.origin = "page" /\ lastOp.id # 0)
        => /\ lastOp.page = lastOp.pageArg
           /\ lastOp.arg = lastOp.term

\* C6: handlePageChange(n) is only ever triggered for a page n with n >= 1
\* and (n-1) * 10 < appState.totalResults, after any sequence of searches
\* and page changes.
NoPageChangeBeyondTotal ==
    (lastOp.op = "start" /\ lastOp.origin = "page")
        => /\ lastOp.pageArg >= 1
           /\ (lastOp.pageArg - 1) * 10 < lastOp.total

====
